---- MODULE Spec2Model ----
(***************************************************************************)
(* A model of the call-expectation harness of src/main.go: the handle      *)
(* (type DB) with its expectation queue, cursor, collected errors and      *)
(* current error; the builder pointers returned by ExpectCall; the caller  *)
(* variables that intercepted calls receive pointers to; and the pure      *)
(* helpers of the engine (verifyParams, setOutputParams, deepCopy,         *)
(* getFnName, reflect.DeepEqual, encoding/json round trip).                *)
(***************************************************************************)
EXTENDS Integers, Sequences, FiniteSets, TLC

VARIABLES
    arrays,        \* backing arrays allocated for it.expectations, oldest first
    expectations,  \* the slice header it.expectations: [arr, len, cap]
    builders,      \* the *expectation pointers returned by ExpectCall so far
    index,         \* it.index
    testErrors,    \* it.testErrors
    Error,         \* it.Error
    heap,          \* the caller's variables that arguments may point to
    crashed,       \* a panic unwound the latest call that met the expectation at
                   \* the cursor (the caller recovered, the handle stays in use)
    verdict,       \* what the test's latest ExpectationsMet() returned
    run            \* history: counters and flags over the whole run

vars == <<arrays, expectations, builders, index, testErrors, Error, heap,
          crashed, verdict, run>>

(***************************************************************************)
(* Bounds of the exploration.                                              *)
(***************************************************************************)
MaxExp == 2      \* ExpectCall is invoked at most this many times
MaxLen == 2      \* an expectation's Params / Output hold at most this many
MaxOps == 5      \* declarations, intercepted operations and inquiries in a run

(***************************************************************************)
(* Go values that travel through interface{} parameters.                   *)
(***************************************************************************)
IntV(n) == [k |-> "int", n |-> n]
NilV == [k |-> "nil"]
ChanV == [k |-> "chan", id |-> "ch"]
MapV(m) == [k |-> "map", m |-> m]
PtrV(c) == [k |-> "ptr", ref |-> c]
BoxV(v) == [k |-> "box", v |-> v]

\* errors: the nil error and errors.New(msg)
NilErr == <<>>
NewError(msg) == <<msg>>

\* the test has not called ExpectationsMet yet
NotAsked == <<"not asked", "yet">>

\* the zero value of type expectation
ZeroExpectation == [Function |-> "", Params |-> <<>>, Output |-> <<>>, Error |-> NilErr]

\* expectation{Function: fn}
NewExpectation(fn) == [ZeroExpectation EXCEPT !.Function = fn]

\* the caller's variables: pi is an int, pm is a map[string]int
Cells == {"pi", "pm"}

\* keys of a map[string]int in increasing order
KeyOrder == <<"x", "y">>

\* the elements of the slice it.expectations, first to last
Exps == IF expectations.arr = 0 THEN <<>>
        ELSE SubSeq(arrays[expectations.arr], 1, expectations.len)

(***************************************************************************)
(* reflect: types, kinds, deep equality; fmt: the %v verb.                 *)
(***************************************************************************)
RECURSIVE TypeOf(_, _)
\* reflect.TypeOf(v) as the type's name; "" is the nil Type of an untyped nil
TypeOf(v, h) ==
    CASE v.k = "nil" -> ""
      [] v.k = "int" -> "int"
      [] v.k = "map" -> "map[string]int"
      [] v.k = "chan" -> "chan int"
      [] v.k = "ptr" -> "*" \o TypeOf(h[v.ref], h)

\* t.Kind() of a non-nil type, printed with %v
Kind(v) == v.k

\* the keys present in a map value
MapKeys(m) == {p[1] : p \in m}

\* m[key] for a key that is present
MapGet(m, key) == (CHOOSE p \in m : p[1] = key)[2]

RECURSIVE DeepEqual(_, _, _)
\* reflect.DeepEqual(x, y)
DeepEqual(x, y, h) ==
    IF x.k = "nil" \/ y.k = "nil" THEN x.k = y.k
    ELSE IF TypeOf(x, h) # TypeOf(y, h) THEN FALSE
    ELSE CASE x.k = "int" -> x.n = y.n
           [] x.k = "map" -> x.m = y.m
           [] x.k = "chan" -> x.id = y.id
           [] x.k = "ptr" -> x.ref = y.ref \/ DeepEqual(h[x.ref], h[y.ref], h)

RECURSIVE FormatEntries(_, _, _)
\* the entries of a map from key number i on, in key order, as fmt prints them
FormatEntries(m, i, sep) ==
    IF i > Len(KeyOrder) THEN ""
    ELSE IF KeyOrder[i] \in MapKeys(m)
         THEN sep \o KeyOrder[i] \o ":" \o ToString(MapGet(m, KeyOrder[i]))
                  \o FormatEntries(m, i + 1, " ")
         ELSE FormatEntries(m, i + 1, sep)

\* fmt's %v of a value
FormatV(v, h) ==
    CASE v.k = "nil" -> "<nil>"
      [] v.k = "int" -> ToString(v.n)
      [] v.k = "map" -> "map[" \o FormatEntries(v.m, 1, "") \o "]"
      [] v.k = "chan" -> "0x" \o v.id
      [] v.k = "ptr" -> IF h[v.ref].k = "map"
                        THEN "&map[" \o FormatEntries(h[v.ref].m, 1, "") \o "]"
                        ELSE "0x" \o v.ref

(***************************************************************************)
(* encoding/json: Marshal and Unmarshal, and deepCopy built from them.     *)
(* A JSON text is [t |-> "num", n |-> ..] or [t |-> "obj", m |-> ..]: the   *)
(* declared outputs are ints, maps, channels and pointers to ints or maps, *)
(* the destinations are *int and *map[string]int.                          *)
(***************************************************************************)
RECURSIVE Marshal(_, _)
\* json.Marshal(v): the encoding and the error
Marshal(v, h) ==
    CASE v.k = "int" -> [err |-> NilErr, json |-> [t |-> "num", n |-> v.n]]
      [] v.k = "map" -> [err |-> NilErr, json |-> [t |-> "obj", m |-> v.m]]
      [] v.k = "chan" -> [err |-> NewError("json: unsupported type: chan int"),
                          json |-> [t |-> "none"]]
      [] v.k = "ptr" -> Marshal(h[v.ref], h)
      [] v.k = "box" -> Marshal(v.v, h)

\* json.Unmarshal(j, dst) for a non-nil pointer dst: the error and the memory after it
Unmarshal(j, dst, h) ==
    LET old == h[dst.ref]
        mismatch(what) ==
            [err |-> NewError("json: cannot unmarshal " \o what
                              \o " into Go value of type " \o TypeOf(old, h)),
             heap |-> h]
    IN  CASE j.t = "num" ->
               IF old.k = "int"
               THEN [err |-> NilErr, heap |-> [h EXCEPT ![dst.ref] = IntV(j.n)]]
               ELSE mismatch("number")
          [] j.t = "obj" ->
               IF old.k = "map"
               THEN [err |-> NilErr,
                     heap |-> [h EXCEPT ![dst.ref] =
                        MapV({p \in old.m : p[1] \notin MapKeys(j.m)} \cup j.m)]]
               ELSE mismatch("object")

\* deepCopy(src, dst)
deepCopy(src, dst, h) ==
    LET encoded == Marshal(src, h)
    IN  IF encoded.err # NilErr THEN [err |-> encoded.err, heap |-> h]
        ELSE Unmarshal(encoded.json, dst, h)

\* Copy(v): an independent structural copy of v
Copy(v, h) == IF v.k = "ptr" THEN BoxV(h[v.ref]) ELSE v

(***************************************************************************)
(* The engine's helpers.                                                   *)
(***************************************************************************)
\* frames skipped by runtime.Callers(3, pc): Callers, getFnName, query
SkipFrames == 3

\* frame.Function of each active frame, innermost first, split at the dots, when
\* the intercepted operation op runs query and was itself called from callers
CallStack(op, callers) ==
    << <<"runtime", "Callers">>,
       <<"github", "com/jinzhu/gorm", "(*DB)", "getFnName">>,
       <<"github", "com/jinzhu/gorm", "(*DB)", "query">>,
       <<"github", "com/jinzhu/gorm", "(*DB)", op>> >> \o callers

\* a getFnName that skips one frame too many and names the operation's caller
getFnNameOfCaller(stack) ==
    LET pathParts == stack[SkipFrames + 2]
    IN  pathParts[Len(pathParts)]

\* getFnName(): the last dot-separated part of the first frame after the skipped ones
getFnName(stack) ==
    LET pathParts == stack[SkipFrames + 1]
    IN  pathParts[Len(pathParts)]

\* a comparison that reports the last position that differs
compareParamsLast(e, fn, params, i, h) ==
    LET differ == {j \in i..Len(params) : ~DeepEqual(params[j], e.Params[j], h)}
        last == CHOOSE j \in differ : \A k \in differ : k <= j
    IN  IF differ = {} THEN NilErr
        ELSE NewError("Unexpected parameter " \o FormatV(params[last], h) \o " in func "
                      \o fn \o "; expected " \o FormatV(e.Params[last], h))

RECURSIVE compareParams(_, _, _, _, _)
\* the loop of verifyParams from position i on (positions count from 1 here)
compareParams(e, fn, params, i, h) ==
    IF i > Len(params) THEN NilErr
    ELSE IF ~DeepEqual(params[i], e.Params[i], h)
         THEN NewError("Unexpected parameter " \o FormatV(params[i], h) \o " in func "
                       \o fn \o "; expected " \o FormatV(e.Params[i], h))
         ELSE compareParams(e, fn, params, i + 1, h)

\* a verifyParams for which an expectation without parameters expects none
verifyParamsNoWildcard(e, fn, params, h) ==
    IF Len(e.Params) > Len(params) THEN NewError("Not enough parameters")
    ELSE IF Len(e.Params) < Len(params) THEN NewError("Too many parameters")
    ELSE compareParams(e, fn, params, 1, h)

\* verifyParams(fn, params...) against e = it.expectations[it.index]
verifyParams(e, fn, params, h) ==
    IF Len(e.Params) = 0 THEN NilErr
    ELSE IF Len(e.Params) > Len(params) THEN NewError("Not enough parameters")
    ELSE IF Len(e.Params) < Len(params) THEN NewError("Too many parameters")
    ELSE compareParams(e, fn, params, 1, h)

RECURSIVE projectFrom(_, _, _, _)
\* the loop of setOutputParams from position i on: the error it returns, the
\* caller's memory after it, and whether t.Kind() panicked on a nil Type
projectFrom(e, params, i, h) ==
    IF i > Len(params) \/ i > Len(e.Output)
    THEN [err |-> NilErr, heap |-> h, panic |-> FALSE]
    ELSE IF TypeOf(params[i], h) = ""
    THEN [err |-> NilErr, heap |-> h, panic |-> TRUE]
    ELSE IF Kind(params[i]) # "ptr"
    THEN [err |-> NewError("Out parameters must be pointers. Got kind "
                           \o Kind(params[i]) \o "."),
          heap |-> h, panic |-> FALSE]
    ELSE projectFrom(e, params, i + 1, deepCopy(e.Output[i], params[i], h).heap)

\* setOutputParams(params...) against e = it.expectations[it.index]
setOutputParams(e, params, h) ==
    IF Len(e.Output) = 0 THEN [err |-> NilErr, heap |-> h, panic |-> FALSE]
    ELSE projectFrom(e, params, 1, h)

\* a setError that keeps the current error when none was declared
setErrorUnlessNil(e) == IF e.Error = NilErr THEN Error ELSE e.Error

\* setError(): the new it.Error, from e = it.expectations[it.index]
setError(e) == e.Error

\* an ExpectationsMet that reports the latest collected error
ExpectationsMetLatest ==
    IF Len(testErrors) > 0 THEN testErrors[Len(testErrors)]
    ELSE IF index < expectations.len THEN NewError("Not all expectations met")
    ELSE NilErr

\* ExpectationsMet(): the error it returns in the current state
ExpectationsMet ==
    IF Len(testErrors) > 0 THEN testErrors[1]
    ELSE IF index < expectations.len THEN NewError("Not all expectations met")
    ELSE NilErr

\* the Go toolchains whose append differs: 1.14 and 1.15, 1.16 and 1.17 (a
\* 24-byte malloc size class is added), 1.18 to 1.21 (growth by a quarter
\* starts at 256 elements instead of 1024), 1.22 and later (an 8-byte malloc
\* header in front of the larger pointer-holding objects)
Toolchains == {"go1.14", "go1.16", "go1.18", "go1.22"}

\* the targets the program may be built for, by pointer width
Archs == {"386", "amd64"}

\* the size of a pointer in bytes
PtrSize(arch) == IF arch = "386" THEN 4 ELSE 8

\* unsafe.Sizeof(expectation{}): a string (2 words), two slices (3 words
\* each) and an interface (2 words)
ElemSize(arch) == (2 + 3 + 3 + 2) * PtrSize(arch)

\* the runtime's malloc size classes in bytes, in increasing order, class 0
\* included (class_to_size)
class_to_size(go) ==
    <<0, 8, 16>> \o (IF go = "go1.14" THEN <<>> ELSE <<24>>) \o
    <<32, 48, 64, 80, 96, 112, 128, 144, 160, 176, 192, 208, 224, 240, 256,
      288, 320, 352, 384, 416, 448, 480, 512, 576, 640, 704, 768, 896, 1024, 1152,
      1280, 1408, 1536, 1792, 2048, 2304, 2688, 3072, 3200, 3456, 4096, 4864,
      5376, 6144, 6528, 6784, 6912, 8192, 9472, 9728, 10240, 10880, 12288, 13568,
      14336, 16384, 18432, 19072, 20480, 21760, 24576, 27264, 28672, 32768>>

\* the runtime's page size, largest small object and malloc header
PageSize == 8192
MaxSmallSize == 32768
MallocHeaderSize == 8

\* the size up to which the pointer bitmap lives in the span instead of a
\* header: one bitmap word, a bit per pointer-sized word of the object
MinSizeForMallocHeader(arch) == PtrSize(arch) * (8 * PtrSize(arch))

RECURSIVE ClassFrom(_, _, _)
\* the first class from class c on that holds size bytes
ClassFrom(classes, c, size) ==
    IF classes[c] >= size THEN classes[c] ELSE ClassFrom(classes, c + 1, size)

\* the smallest size class that holds size bytes, for size <= MaxSmallSize
SizeClass(go, size) == ClassFrom(class_to_size(go), 1, size)

\* size rounded up to whole pages
AlignUpPage(size) == ((size + PageSize - 1) \div PageSize) * PageSize

\* runtime.roundupsize(size) for an object that holds pointers: the bytes
\* malloc makes usable for a request of size bytes
roundupsize(go, arch, size) ==
    IF go = "go1.22"
    THEN IF size <= MaxSmallSize - MallocHeaderSize
         THEN IF size > MinSizeForMallocHeader(arch)
              THEN SizeClass(go, size + MallocHeaderSize) - MallocHeaderSize
              ELSE SizeClass(go, size)
         ELSE AlignUpPage(size)
    ELSE IF size < MaxSmallSize THEN SizeClass(go, size) ELSE AlignUpPage(size)

\* the slice length below which growslice doubles
GrowThreshold(go) == IF go \in {"go1.14", "go1.16"} THEN 1024 ELSE 256

RECURSIVE growQuarter(_, _, _)
\* growslice's loop for a large slice: grow newcap by a quarter (Go 1.18 and
\* later: by a quarter plus 192) until it holds needed elements
growQuarter(go, newcap, needed) ==
    IF newcap >= needed THEN newcap
    ELSE growQuarter(go,
                     IF GrowThreshold(go) = 1024 THEN newcap + newcap \div 4
                     ELSE newcap + (newcap + 3 * GrowThreshold(go)) \div 4,
                     needed)

\* the capacity growslice asks for, before rounding: needed if more than the
\* double, the double for a small slice, else growth by quarters
nextslicecap(go, oldcap, needed) ==
    IF needed > oldcap + oldcap THEN needed
    ELSE IF oldcap < GrowThreshold(go) THEN oldcap + oldcap
    ELSE growQuarter(go, oldcap, needed)

\* the capacity append gives a full slice of capacity oldcap that must hold
\* needed elements (runtime.growslice): the capacity asked for, rounded up to
\* what the malloc size class of its bytes can hold
GrowCap(go, arch, oldcap, needed) ==
    roundupsize(go, arch, nextslicecap(go, oldcap, needed) * ElemSize(arch))
        \div ElemSize(arch)

\* n zero elements
RECURSIVE Zeros(_)
Zeros(n) == IF n <= 0 THEN <<>> ELSE <<ZeroExpectation>> \o Zeros(n - 1)

\* the expectation a builder pointer refers to
Target(p) == arrays[p.arr][p.i]

(***************************************************************************)
(* Inputs of the exploration.                                              *)
(***************************************************************************)
\* operation names: given to ExpectCall, and the intercepted operations invoked
Names == {"Create", "First"}

\* the functions an intercepted operation is called from, innermost first
CallerChains ==
    { << <<"testing", "tRunner">> >>,
      << <<"main", "helper">>, <<"testing", "tRunner">> >> }

\* argument lists of WithParams
ParamLists == { <<IntV(1)>>, <<IntV(1), IntV(2)>>, <<PtrV("pm")>> }

\* argument lists of WithOutput
OutputLists == { <<MapV({<<"x", 1>>})>>, <<MapV({<<"x", 1>>}), IntV(2)>>, <<ChanV>> }

\* arguments of WithError
ErrorValues == { NewError("someErr") }

\* argument lists of the intercepted operations: Create(value) takes one
\* argument, First(params...) any number
ArgLists(op) ==
    IF op = "Create"
    THEN { <<IntV(1)>> }
    ELSE { <<>>, <<IntV(1), IntV(2)>>, <<IntV(2), IntV(1)>>, <<NilV>>,
           <<PtrV("pm")>>, <<PtrV("pi")>>, <<PtrV("pm"), PtrV("pi")>>,
           <<PtrV("pm"), IntV(2)>>, <<IntV(2), PtrV("pi")>> }

\* what the caller's variables hold before the test starts
InitialHeaps ==
    { [pi |-> IntV(1), pm |-> MapV({<<"y", 2>>})] }

(***************************************************************************)
(* History: what the run did so far. run.ops counts the declarations,      *)
(* intercepted operations and ExpectationsMet inquiries, run.calls the     *)
(* intercepted operations,                                                 *)
(* run.recognized those made while the cursor was inside the queue and     *)
(* run.excess those made while it was not; run.failed says that some       *)
(* intercepted operation collected an error; run.orderly says that every   *)
(* declaration came before every intercepted operation and that every      *)
(* intercepted operation met an expectation it Matches; run.pointers says  *)
(* that every one of them had PointersForOutputs.                          *)
(***************************************************************************)
\* a call matches an expectation: same operation, and the declared parameters
\* are absent or deeply equal, position by position, to the observed ones
Matches(e, fn, params, h) ==
    /\ fn = e.Function
    /\ \/ e.Params = <<>>
       \/ /\ Len(e.Params) = Len(params)
          /\ \A i \in 1..Len(params) : DeepEqual(params[i], e.Params[i], h)

\* every argument that has a declared output at its position is a pointer
PointersForOutputs(e, params) ==
    \A i \in 1..Len(params) : i <= Len(e.Output) => params[i].k = "ptr"

(***************************************************************************)
(* The state after Open.                                                   *)
(***************************************************************************)
Init ==
    /\ arrays = <<>>
    /\ expectations = [arr |-> 0, len |-> 0, cap |-> 0]
    /\ builders = <<>>
    /\ index = 0
    /\ testErrors = <<>>
    /\ Error = NilErr
    /\ heap \in InitialHeaps
    /\ crashed = FALSE
    /\ verdict = NotAsked
    /\ run = [ops |-> 0, calls |-> 0, recognized |-> 0, excess |-> 0,
              failed |-> FALSE, orderly |-> TRUE, pointers |-> TRUE]

(***************************************************************************)
(* The declaration API.                                                    *)
(***************************************************************************)
\* the capacity of the array that came before arrays[k]
CapBefore(k) == IF k = 1 THEN 0 ELSE Len(arrays[k - 1])

\* the builds (toolchain and target) the program may be, going by the arrays
\* append has allocated so far: each was allocated for a full slice
Builds ==
    {build \in Toolchains \X Archs :
        \A k \in DOMAIN arrays :
           Len(arrays[k]) = GrowCap(build[1], build[2], CapBefore(k), CapBefore(k) + 1)}

\* the capacities append may give the full slice it.expectations
NewCaps ==
    {GrowCap(build[1], build[2], expectations.cap, expectations.len + 1) : build \in Builds}

\* it.expectations = append(it.expectations, e): the arrays and the slice
\* header, where a full slice moves to a new array of capacity newcap
AppendExpectation(e, newcap) ==
    IF expectations.len < expectations.cap
    THEN [arrays |-> [arrays EXCEPT ![expectations.arr][expectations.len + 1] = e],
          slice |-> [expectations EXCEPT !.len = @ + 1]]
    ELSE [arrays |-> Append(arrays, Exps \o <<e>> \o Zeros(newcap - expectations.len - 1)),
          slice |-> [arr |-> Len(arrays) + 1, len |-> expectations.len + 1,
                     cap |-> newcap]]

\* ExpectCall(fn)
ExpectCall(fn) ==
    /\ run.ops < MaxOps
    /\ Len(builders) < MaxExp
    /\ \E newcap \in NewCaps :
          LET a == AppendExpectation(NewExpectation(fn), newcap)
          IN  /\ arrays' = a.arrays
              /\ expectations' = a.slice
              /\ builders' = Append(builders, [arr |-> a.slice.arr, i |-> a.slice.len])
    /\ run' = [run EXCEPT !.ops = @ + 1, !.orderly = @ /\ run.calls = 0]
    /\ UNCHANGED <<index, testErrors, Error, heap, crashed, verdict>>

\* a builder call may be made: b is a pointer ExpectCall returned
CanBuild(b) ==
    /\ b \in 1..Len(builders)
    /\ run.ops < MaxOps

\* the history after a builder call
Built ==
    /\ run' = [run EXCEPT !.ops = @ + 1, !.orderly = @ /\ run.calls = 0]
    /\ UNCHANGED <<expectations, builders, index, testErrors, Error, heap, crashed,
                   verdict>>

\* e.WithParams(params...) on the pointer ExpectCall returned b-th
WithParams(b, params) ==
    /\ CanBuild(b)
    /\ Len(Target(builders[b]).Params) + Len(params) <= MaxLen
    /\ arrays' = [arrays EXCEPT ![builders[b].arr][builders[b].i].Params = @ \o params]
    /\ Built

\* e.WithOutput(output...) on the pointer ExpectCall returned b-th
WithOutput(b, output) ==
    /\ CanBuild(b)
    /\ Len(Target(builders[b]).Output) + Len(output) <= MaxLen
    /\ arrays' = [arrays EXCEPT ![builders[b].arr][builders[b].i].Output =
                     @ \o [i \in 1..Len(output) |-> Copy(output[i], heap)]]
    /\ Built

\* e.WithError(err) on the pointer ExpectCall returned b-th
WithError(b, err) ==
    /\ CanBuild(b)
    /\ arrays' = [arrays EXCEPT ![builders[b].arr][builders[b].i].Error = err]
    /\ Built

(***************************************************************************)
(* The intercepted operations: each forwards its arguments to query.       *)
(***************************************************************************)
\* it.expectations[i]
expectationAt(i) == Exps[i + 1]

\* a recording that keeps only the first unexpected call
recordUnexpectedOnce(fnName) ==
    IF testErrors # <<>> THEN testErrors
    ELSE Append(testErrors, NewError("Unexpected call to " \o fnName))

\* a recording that starts the list of errors afresh
recordUnexpectedAlone(fnName) == <<NewError("Unexpected call to " \o fnName)>>

\* it.testErrors after an unexpected call to fnName was recorded
recordUnexpected(fnName) ==
    Append(testErrors, NewError("Unexpected call to " \o fnName))

\* an unexpected-call branch that also clears the current error
unexpectedClearsError(fnName) ==
    /\ testErrors' = recordUnexpected(fnName)
    /\ Error' = NilErr
    /\ UNCHANGED <<index, heap, crashed>>

\* the branch of query taken when it.index >= len(it.expectations)
unexpected(fnName) ==
    /\ testErrors' = recordUnexpected(fnName)
    /\ UNCHANGED <<index, Error, heap, crashed>>

\* it.query(params...), in which getFnName() returned fnName
query(fnName, params) ==
    IF index >= expectations.len
    THEN unexpected(fnName)
    ELSE LET e == expectationAt(index)
             expected == e.Function
             named == IF fnName # expected
                      THEN Append(testErrors,
                                  NewError("Unexpected call to " \o fnName
                                           \o "; expected " \o expected))
                      ELSE testErrors
             verr == verifyParams(e, fnName, params, heap)
             verified == IF verr # NilErr THEN Append(named, verr) ELSE named
             out == setOutputParams(e, params, heap)
             projected == IF out.err # NilErr THEN Append(verified, out.err)
                          ELSE verified
         IN  IF out.panic
             THEN /\ testErrors' = verified
                  /\ heap' = out.heap
                  /\ crashed' = TRUE
                  /\ UNCHANGED <<index, Error>>
             ELSE /\ testErrors' = projected
                  /\ heap' = out.heap
                  /\ Error' = setError(e)
                  /\ index' = index + 1
                  /\ crashed' = FALSE

\* what getFnName() may return inside the intercepted operation op, over the
\* functions the operation is called from
Resolved(op) == {getFnName(CallStack(op, callers)) : callers \in CallerChains}

\* an intercepted operation may be invoked
CanCall == run.ops < MaxOps

\* the history after the intercepted operation op was invoked with params
Called(op, params) ==
    /\ run' = [ops |-> run.ops + 1,
               calls |-> run.calls + 1,
               recognized |-> run.recognized + IF index < expectations.len THEN 1 ELSE 0,
               excess |-> run.excess + IF index < expectations.len THEN 0 ELSE 1,
               failed |-> run.failed \/ testErrors' # testErrors,
               orderly |-> /\ run.orderly
                           /\ index < expectations.len
                           /\ Matches(Exps[index + 1], op, params, heap),
               pointers |-> /\ run.pointers
                            /\ index < expectations.len
                               => PointersForOutputs(Exps[index + 1], params)]
    /\ UNCHANGED <<arrays, expectations, builders, verdict>>

\* an intercepted operation (Create, First, ...) invoked with params, from any
\* of the callers
Call(op, params) ==
    /\ CanCall
    /\ \E fnName \in Resolved(op) : query(fnName, params)
    /\ Called(op, params)

\* an ExpectationsMet that hands over the collected errors and clears them
VerifyAndReset ==
    /\ run.ops < MaxOps
    /\ verdict' = ExpectationsMet
    /\ testErrors' = <<>>
    /\ run' = [run EXCEPT !.ops = @ + 1]
    /\ UNCHANGED <<arrays, expectations, builders, index, Error, heap, crashed>>

\* err := it.ExpectationsMet() invoked by the test
Verify ==
    /\ run.ops < MaxOps
    /\ verdict' = ExpectationsMet
    /\ run' = [run EXCEPT !.ops = @ + 1]
    /\ UNCHANGED <<arrays, expectations, builders, index, testErrors, Error, heap,
                   crashed>>

Next ==
    \/ \E fn \in Names : ExpectCall(fn)
    \/ \E b \in 1..MaxExp, params \in ParamLists : WithParams(b, params)
    \/ \E b \in 1..MaxExp, output \in OutputLists : WithOutput(b, output)
    \/ \E b \in 1..MaxExp, err \in ErrorValues : WithError(b, err)
    \/ \E op \in Names : \E params \in ArgLists(op) : Call(op, params)
    \/ Verify

Spec == Init /\ [][Next]_vars

(***************************************************************************)
(* Properties.                                                             *)
(***************************************************************************)
\* this step is the intercepted operation op invoked with params
CallStep(op, params) ==
    /\ run'.calls = run.calls + 1
    /\ Call(op, params)

\* the errors this step appends to it.testErrors
NewErrors == SubSeq(testErrors', Len(testErrors) + 1, Len(testErrors'))

\* the elements of a sequence
Range(s) == {s[i] : i \in DOMAIN s}

\* the non-nil errors of a sequence of errors, in order
Collected(errs) == SelectSeq(errs, LAMBDA err : err # NilErr)

\* the error for a call to fn that finds an expectation of another operation
NameMismatch(fn, expected) ==
    IF fn = expected THEN NilErr
    ELSE NewError("Unexpected call to " \o fn \o "; expected " \o expected)

\* the error for a call made after the queue was used up
IsUnexpectedCall(err) == \E fn \in Names : err = NewError("Unexpected call to " \o fn)

\* the positions of it.testErrors that hold an unexpected-call error
UnexpectedAt == {i \in DOMAIN testErrors : IsUnexpectedCall(testErrors[i])}

\* the least element of a non-empty set of numbers
Least(S) == CHOOSE i \in S : \A j \in S : i <= j

\* the errors setOutputParams can return
OutputTypeErrors ==
    {NewError("Out parameters must be pointers. Got kind " \o kind \o ".") :
        kind \in {"int", "map", "chan"}}

\* the error for a call whose number of parameters differs from the expected
CountMismatch(e, params) ==
    IF Len(e.Params) > Len(params) THEN NewError("Not enough parameters")
    ELSE NewError("Too many parameters")

\* an expectation declares parameters and the call supplies another number
CountsDiffer(e, params) == Len(e.Params) > 0 /\ Len(params) # Len(e.Params)

\* the value a declared output stands for
Pointee(v) == IF v.k = "box" THEN v.v ELSE v

\* the error declared by the last expectation of the queue, nil without one
LastDeclaredError ==
    IF expectations.len = 0 THEN NilErr ELSE Exps[expectations.len].Error

\* C1 as stated: when N expectations were declared and then exactly those N
\* operations were invoked in order with matching parameters, ExpectationsMet()
\* returns nil and it.Error is the error declared by the last expectation.
C1_MatchingRunMeetsExpectations ==
    (run.orderly /\ index = expectations.len /\ ~crashed)
        => (ExpectationsMet = NilErr /\ Error = LastDeclaredError)

\* C1 amended: the same, for runs in which every argument at a position that
\* has a declared output is a pointer.
C1_MatchingRunWithPointersMeetsExpectations ==
    (run.orderly /\ run.pointers /\ index = expectations.len /\ ~crashed)
        => (ExpectationsMet = NilErr /\ Error = LastDeclaredError)

\* a matching run whose only expectation declares parameters, an output and an
\* error has been played to the end with a pointer argument
C1_Witness ==
    /\ run.orderly /\ run.pointers /\ ~crashed
    /\ index = expectations.len /\ run.calls = 1
    /\ Exps[1].Params # <<>> /\ Exps[1].Output # <<>>
    /\ Error = NewError("someErr")

\* C2: ExpectationsMet() returns the first collected error if there is one,
\* else "Not all expectations met" if the cursor is short of the queue's end,
\* else nil; it returns nil exactly when no error was ever collected and the
\* cursor equals the number of expectations.
C2_ExpectationsMetResult ==
    /\ testErrors # <<>> => ExpectationsMet = testErrors[1]
    /\ (testErrors = <<>> /\ index < expectations.len)
          => ExpectationsMet = NewError("Not all expectations met")
    /\ (testErrors = <<>> /\ index >= expectations.len) => ExpectationsMet = NilErr
    /\ ExpectationsMet = NilErr <=> (~run.failed /\ index = expectations.len)

\* the test was told the first of two different collected errors
C2_Witness ==
    /\ Len(testErrors) >= 2
    /\ testErrors[1] # testErrors[2]
    /\ verdict = testErrors[1]

\* C3: the k-th call made while the cursor is inside the queue (k from 0) is
\* compared against, takes its outputs from and takes its declared error from
\* the k-th declared expectation, whatever the other expectations would fit.
C3_ConsumedInDeclarationOrder ==
    [][\A op \in Names : \A params \in ArgLists(op) :
          (index < expectations.len /\ CallStep(op, params)) =>
             LET e == Exps[run.recognized + 1]
                 out == setOutputParams(e, params, heap)
             IN  /\ NewErrors = Collected(<<NameMismatch(op, e.Function),
                                            verifyParams(e, op, params, heap),
                                            out.err>>)
                 /\ heap' = out.heap
                 /\ Error' = e.Error]_vars

\* C4: the cursor starts at 0, increases by exactly one on every intercepted
\* operation invoked while cursor < len(expectations), is changed by no other
\* operation, never decreases, and stays within 0 .. len(expectations).
C4_CursorDiscipline ==
    [][/\ (run'.calls # run.calls /\ index < expectations.len) => index' = index + 1
       /\ ~(run'.calls # run.calls /\ index < expectations.len) => index' = index
       /\ index' >= index
       /\ 0 <= index' /\ index' <= expectations'.len
       /\ run.ops = 0 => index = 0]_vars

\* C5 as stated: every call made while cursor >= len(expectations) appends
\* exactly one "Unexpected call" error, and ExpectationsMet() then returns the
\* first such unexpected-call error.
C5_ExcessCallsReportedFirst ==
    [][run'.excess # run.excess =>
          /\ Len(NewErrors) = 1 /\ IsUnexpectedCall(NewErrors[1])
          /\ Cardinality(UnexpectedAt') = run'.excess
          /\ ExpectationsMet' = testErrors'[Least(UnexpectedAt')]]_vars

\* C5 amended: every call made while cursor >= len(expectations) appends exactly
\* one "Unexpected call" error naming the operation, and ExpectationsMet() then
\* returns the first collected error, which is the first unexpected-call error
\* only when no mismatch error was collected before it.
C5_ExcessCallsReported ==
    [][\A op \in Names : \A params \in ArgLists(op) :
          (index >= expectations.len /\ CallStep(op, params)) =>
             /\ NewErrors = <<NewError("Unexpected call to " \o op)>>
             /\ Cardinality(UnexpectedAt') = run'.excess
             /\ ExpectationsMet' = testErrors'[1]]_vars

\* two excess calls followed a call that had collected a mismatch error, and
\* the test was told that mismatch error
C5_Witness ==
    /\ run.excess = 2
    /\ Len(testErrors) = 3
    /\ ~IsUnexpectedCall(testErrors[1])
    /\ IsUnexpectedCall(testErrors[2]) /\ IsUnexpectedCall(testErrors[3])
    /\ verdict = testErrors[1]

\* C6: after every intercepted operation invoked while cursor <
\* len(expectations), it.Error is the declared error of the expectation at
\* the cursor, nil included, whatever the call's name, parameters and outputs.
C6_ErrorSetFromConsumed ==
    [][(run'.calls # run.calls /\ index < expectations.len)
          => Error' = Exps[index + 1].Error]_vars

\* C7: when the expectation at the cursor declares no parameters, a call with
\* any parameter list records no parameter-count and no parameter-value error:
\* whatever it records is the name mismatch or the output type error.
C7_NoParamsIsWildcard ==
    [][\A op \in Names : \A params \in ArgLists(op) :
          (index < expectations.len /\ Exps[index + 1].Params = <<>>
              /\ CallStep(op, params)) =>
             /\ NewError("Not enough parameters") \notin Range(NewErrors)
             /\ NewError("Too many parameters") \notin Range(NewErrors)
             /\ \A err \in Range(NewErrors) :
                   \/ err = NameMismatch(op, Exps[index + 1].Function)
                   \/ err \in OutputTypeErrors]_vars

\* an expectation without parameters and with two outputs was consumed by a
\* call with two pointer arguments, and nothing was recorded
C7_Witness ==
    /\ run.recognized = 1 /\ index = 1
    /\ Exps[1].Params = <<>> /\ Len(Exps[1].Output) = 2
    /\ heap.pi = IntV(2)
    /\ testErrors = <<>>

\* C8: a call whose number of parameters differs from the K > 0 declared ones
\* records "Not enough parameters" or "Too many parameters" accordingly, and
\* the cursor advances by exactly one.
C8_CountMismatchRecorded ==
    [][\A op \in Names : \A params \in ArgLists(op) :
          (index < expectations.len /\ CountsDiffer(Exps[index + 1], params)
              /\ CallStep(op, params)) =>
             /\ CountMismatch(Exps[index + 1], params) \in Range(NewErrors)
             /\ index' = index + 1]_vars

\* C9 as stated: after a parameter-count mismatch no output type error is
\* recorded and no declared output is written into an argument, while the
\* cursor advances.
C9_CountMismatchAbortsOutputs ==
    [][\A op \in Names : \A params \in ArgLists(op) :
          (index < expectations.len /\ CountsDiffer(Exps[index + 1], params)
              /\ CallStep(op, params)) =>
             /\ CountMismatch(Exps[index + 1], params) \in Range(NewErrors)
             /\ Range(NewErrors) \cap OutputTypeErrors = {}
             /\ heap' = heap
             /\ index' = index + 1]_vars

\* C10: when the expectation at the cursor declares outputs and every argument
\* is a pointer to a variable of the type of the output declared for its
\* position, then after the call that variable is equal to the declared
\* output, whatever it held before, and the variables of the arguments beyond
\* the declared outputs are untouched.
C10_OutputsReplaceDestinations ==
    [][\A op \in Names : \A params \in ArgLists(op) :
          (/\ index < expectations.len
           /\ Exps[index + 1].Output # <<>>
           /\ \A i \in DOMAIN params :
                 /\ params[i].k = "ptr"
                 /\ i <= Len(Exps[index + 1].Output)
                       => Pointee(Exps[index + 1].Output[i]).k = heap[params[i].ref].k
           /\ CallStep(op, params)) =>
             \A i \in DOMAIN params :
                heap'[params[i].ref] =
                    IF i <= Len(Exps[index + 1].Output)
                    THEN Pointee(Exps[index + 1].Output[i])
                    ELSE heap[params[i].ref]]_vars

\* the type error for an argument of which reflection finds no pointer kind
PointerErrors ==
    OutputTypeErrors \cup {NewError("Out parameters must be pointers. Got kind nil.")}

\* the positions of params for which e declares an output
OutputPositions(e, params) == {i \in DOMAIN params : i <= Len(e.Output)}

\* C11: a call with an argument that is not a pointer (a plain value or an
\* untyped nil) at a position for which the consumed expectation declares an
\* output records an "Out parameters must be pointers" error and returns
\* normally: no crash, the current error is set and the cursor advances.
C11_NonPointerIsTypeError ==
    [][\A op \in Names : \A params \in ArgLists(op) :
          (/\ index < expectations.len
           /\ \E i \in OutputPositions(Exps[index + 1], params) : params[i].k # "ptr"
           /\ CallStep(op, params)) =>
             /\ Range(NewErrors) \cap PointerErrors # {}
             /\ ~crashed'
             /\ Error' = Exps[index + 1].Error
             /\ index' = index + 1]_vars

\* C12: a call whose resolved name differs from the name of the expectation at
\* the cursor records exactly one "Unexpected call to X; expected Y" error and
\* goes on: the parameters are checked against that expectation, its outputs
\* are projected, the current error is set from it, the cursor advances by one.
C12_NameMismatchIsSoft ==
    [][\A op \in Names : \A params \in ArgLists(op) :
          (/\ index < expectations.len
           /\ op # Exps[index + 1].Function
           /\ CallStep(op, params)) =>
             LET e == Exps[index + 1]
                 out == setOutputParams(e, params, heap)
             IN  /\ NewErrors = Collected(<<NameMismatch(op, e.Function),
                                            verifyParams(e, op, params, heap),
                                            out.err>>)
                 /\ Cardinality({i \in DOMAIN NewErrors :
                                    NewErrors[i] = NameMismatch(op, e.Function)}) = 1
                 /\ heap' = out.heap
                 /\ Error' = e.Error
                 /\ index' = index + 1]_vars

RECURSIVE copyErrors(_, _, _, _)
\* what deepCopy returns for each position the loop of setOutputParams copies,
\* from position i on
copyErrors(e, params, i, h) ==
    IF i > Len(params) \/ i > Len(e.Output) \/ params[i].k # "ptr" THEN <<>>
    ELSE LET copied == deepCopy(e.Output[i], params[i], h)
         IN  <<copied.err>> \o copyErrors(e, params, i + 1, copied.heap)

\* C13: when serializing a declared output or deserializing it into the
\* caller's destination fails during output projection, the failure is
\* appended to it.testErrors, so that ExpectationsMet() then returns a non-nil
\* error, and the call does not panic.
C13_CopyFailureCollected ==
    [][\A op \in Names : \A params \in ArgLists(op) :
          (/\ index < expectations.len
           /\ Collected(copyErrors(Exps[index + 1], params, 1, heap)) # <<>>
           /\ CallStep(op, params)) =>
             /\ Range(Collected(copyErrors(Exps[index + 1], params, 1, heap)))
                   \subseteq Range(NewErrors)
             /\ ExpectationsMet' # NilErr
             /\ ~crashed']_vars

\* an error taken from it.testErrors, as opposed to nil and "Not all expectations met"
IsCollected(err) == err \notin {NotAsked, NilErr, NewError("Not all expectations met")}

\* C14: it.testErrors is append-only under every operation: each step keeps
\* the errors collected so far as a prefix; and once ExpectationsMet() has
\* returned a collected error it returns that error after any further operations.
C14_CollectedErrorsAppendOnly ==
    [][/\ Len(testErrors') >= Len(testErrors)
       /\ SubSeq(testErrors', 1, Len(testErrors)) = testErrors
       /\ testErrors # <<>> => ExpectationsMet' = ExpectationsMet
       /\ IsCollected(verdict) => ExpectationsMet' = verdict]_vars

\* one declaration, two intercepted operations and two inquiries were made;
\* both operations collected an error and the test was told the first
C14_Witness ==
    /\ run.ops = 5 /\ run.calls = 2 /\ Len(builders) = 1
    /\ run.recognized = 1 /\ run.excess = 1
    /\ Len(testErrors) = 2
    /\ verdict = testErrors[1]

\* C15: ExpectationsMet() changes nothing of the queue state (expectations,
\* cursor, collected errors, current error, the caller's variables), so that
\* asking again at once gives the same result and what later operations and
\* inquiries do is what they would have done without it.
C15_ExpectationsMetChangesNothing ==
    [][Verify =>
          /\ UNCHANGED <<arrays, expectations, builders, index, testErrors, Error,
                         heap, crashed>>
          /\ verdict' = ExpectationsMet
          /\ ExpectationsMet' = verdict']_vars

\* the test asked between a declaration and its call, and was told that not
\* all expectations were met; nothing was lost: the call then met its expectation
C15_Witness ==
    /\ verdict = NewError("Not all expectations met")
    /\ run.calls = 1 /\ run.recognized = 1 /\ index = 1
    /\ testErrors = <<>>
    /\ ExpectationsMet = NilErr

\* the intercepted operations of the handle
Operations ==
    {"Select", "First", "Find", "Related", "Update", "Save", "Create",
     "CreateTable", "HasTable", "Where", "Model", "Table", "Joins", "Scan", "Delete"}

\* C16: the name resolved when an intercepted operation is invoked is that
\* operation's own name, whatever function called it and however deep the
\* stack; so a call to the operation the expectation at the cursor names
\* records no name-mismatch error: what it records comes from the parameter
\* check and the output projection alone.
C16_ResolvesOwnName ==
    /\ \A op \in Operations : \A callers \in CallerChains :
          getFnName(CallStack(op, callers)) = op
    /\ [][\A op \in Names : \A params \in ArgLists(op) :
             (/\ index < expectations.len
              /\ op = Exps[index + 1].Function
              /\ CallStep(op, params)) =>
                NewErrors = Collected(<<verifyParams(Exps[index + 1], op, params, heap),
                                        setOutputParams(Exps[index + 1], params, heap).err>>)]_vars

\* ExpectCall("Create") followed by Create(1) collected nothing
C16_Witness ==
    /\ run.ops = 2 /\ run.calls = 1 /\ index = 1
    /\ Exps[1].Function = "Create"
    /\ testErrors = <<>>
    /\ ExpectationsMet = NilErr

\* C17: a call made while cursor >= len(expectations) changes nothing except
\* appending one error to it.testErrors: the cursor, the expectations, the
\* caller's variables and the current error keep their values.
C17_ExcessCallChangesNothingElse ==
    [][\A op \in Names : \A params \in ArgLists(op) :
          (index >= expectations.len /\ CallStep(op, params)) =>
             /\ Len(testErrors') = Len(testErrors) + 1
             /\ SubSeq(testErrors', 1, Len(testErrors)) = testErrors
             /\ UNCHANGED <<arrays, expectations, builders, index, Error, heap,
                            crashed>>]_vars

\* after the only expectation, which declared an error, was consumed, an
\* excess call was recorded and the current error is still the declared one
C17_Witness ==
    /\ run.recognized = 1 /\ run.excess = 1 /\ index = 1
    /\ Exps[1].Error = NewError("someErr") /\ Error = NewError("someErr")
    /\ IsUnexpectedCall(testErrors[Len(testErrors)])

\* the parameter-mismatch error for position i of a call to fn
ParamMismatch(e, fn, params, i, h) ==
    NewError("Unexpected parameter " \o FormatV(params[i], h) \o " in func " \o fn
             \o "; expected " \o FormatV(e.Params[i], h))

\* the positions at which the observed value is not deeply equal to the expected
Differing(e, params, h) ==
    {i \in DOMAIN params : ~DeepEqual(params[i], e.Params[i], h)}

\* C18: when the parameter counts match, a recognized call records at most one
\* parameter-mismatch error, the one for the lowest position whose observed
\* value is not deeply equal to the expected one, and none when all are equal.
C18_LowestMismatchReported ==
    [][\A op \in Names : \A params \in ArgLists(op) :
          (/\ index < expectations.len
           /\ Len(params) > 0 /\ Len(Exps[index + 1].Params) = Len(params)
           /\ CallStep(op, params)) =>
             LET e == Exps[index + 1]
                 differ == Differing(e, params, heap)
                 reported == {k \in DOMAIN NewErrors :
                                 \E i \in DOMAIN params :
                                    NewErrors[k] = ParamMismatch(e, op, params, i, heap)}
             IN  /\ differ = {} => reported = {}
                 /\ differ # {} =>
                       /\ Cardinality(reported) = 1
                       /\ \A k \in reported :
                             NewErrors[k] = ParamMismatch(e, op, params, Least(differ), heap)]_vars

\* First(2, 1) met an expectation of First(1, 2): both positions differ and
\* the only error collected is the one for the first
C18_Witness ==
    /\ run.calls = 1 /\ index = 1
    /\ Exps[1].Function = "First" /\ Exps[1].Params = <<IntV(1), IntV(2)>>
    /\ testErrors = <<NewError("Unexpected parameter 2 in func First; expected 1")>>

\* the output positions of params whose argument is not a pointer
NonPointers(e, params) == {i \in OutputPositions(e, params) : params[i].k # "ptr"}

\* the positions of the errors this step appends that are output type errors
TypeErrorsAt == {k \in DOMAIN NewErrors : NewErrors[k] \in PointerErrors}

\* C19: in the projection of one call the first position, in increasing
\* order, whose argument is not a pointer records one type error and stops the
\* projection: no argument at a later position is written, the pointer
\* arguments at earlier positions hold their declared output values; and no
\* call records more than one output error.
C19_ProjectionStopsAtFirstNonPointer ==
    [][\A op \in Names : \A params \in ArgLists(op) :
          (index < expectations.len /\ CallStep(op, params)) =>
             LET e == Exps[index + 1]
                 first == Least(NonPointers(e, params))
             IN  /\ Cardinality(TypeErrorsAt) <= 1
                 /\ NonPointers(e, params) # {} =>
                       /\ Cardinality(TypeErrorsAt) = 1
                       /\ \A j \in DOMAIN params :
                             (j > first /\ params[j].k = "ptr")
                                => heap'[params[j].ref] = heap[params[j].ref]
                       /\ \A j \in DOMAIN params :
                             j < first => heap'[params[j].ref] = Pointee(e.Output[j])]_vars

\* C20: the builder ExpectCall returned b-th stays bound to the b-th entry of
\* the queue: WithParams, WithOutput and WithError invoked on it change the
\* expectation stored at that index of it.expectations, also after further
\* ExpectCall calls have appended to (and reallocated) the slice.
C20_BuilderStaysBound ==
    [][\A b \in 1..Len(builders) :
          /\ \A params \in ParamLists :
                WithParams(b, params) => Exps'[b].Params = Exps[b].Params \o params
          /\ \A output \in OutputLists :
                WithOutput(b, output) =>
                   Exps'[b].Output =
                      Exps[b].Output \o [i \in 1..Len(output) |-> Copy(output[i], heap)]
          /\ \A err \in ErrorValues :
                WithError(b, err) => Exps'[b].Error = err]_vars

====
